---- MODULE Spec2Model ----
(***************************************************************************)
(* The connection registry and message routing of main.py:                 *)
(* ConnectionManager (connect, disconnect, send_personal_message,          *)
(* broadcast, broadcast_user_list_update) and websocket_endpoint.          *)
(*                                                                         *)
(* The program runs on one asyncio event loop: a handler task runs without *)
(* interruption from one await to the next.  Every action below is one     *)
(* such uninterrupted run of one task: it completes the await the task is  *)
(* suspended in (pc names that await) and executes the code up to the next *)
(* await.  Between two actions of one task any other task may run.         *)
(***************************************************************************)
EXTENDS Integers, Sequences, FiniteSets, TLC

\* ------------------------------------------------------------------ bounds
MaxInputs == 3     \* websocket connections opened plus frames read during a run
MaxLogins == 2     \* logins (session tokens issued) per user
MaxServing == 4    \* the same count for a run that starts where three users are
                   \* connected (their three connections included)

Conns == 1..(IF MaxInputs > MaxServing THEN MaxInputs ELSE MaxServing)
Users == {"A", "B", "C"}       \* the usernames that are rows of the users table in some run
NoUser == ""
Unregistered == "Z"            \* a name that is in no row of the users table

\* A session token is bound to one user; n numbers that user's logins.
NoTok == [user |-> NoUser, n |-> 0]
Tokens == [user : Users, n : 1..MaxLogins]

\* ------------------------------------------------------ the dict of CPython
\* A dict is its array of entries in insertion order.  Deleting a key leaves
\* a dummy entry in place (k = NoTok); inserting a new key appends.  The
\* array is compacted only when it is full (8 slots hold 5 entries), which
\* MaxInputs insertions do not reach.
Live(d) == {i \in 1..Len(d) : d[i].k # NoTok}
Used(d) == Cardinality(Live(d))
Has(d, k) == \E i \in 1..Len(d) : d[i].k = k
Idx(d, k) == CHOOSE i \in 1..Len(d) : d[i].k = k
Get(d, k) == d[Idx(d, k)].v
Put(d, k, v) == IF Has(d, k) THEN [d EXCEPT ![Idx(d, k)].v = v]
                ELSE Append(d, [k |-> k, v |-> v])
Del(d, k, null) == [d EXCEPT ![Idx(d, k)] = [k |-> NoTok, v |-> null]]
Values(d) == LET F[i \in 0..Len(d)] ==
                   IF i = 0 THEN << >>
                   ELSE IF d[i].k = NoTok THEN F[i-1] ELSE Append(F[i-1], d[i].v)
             IN F[Len(d)]
\* the first live entry after position pos, 0 when there is none
NextLive(d, pos) == IF \E i \in Live(d) : i > pos
                    THEN CHOOSE i \in Live(d) : i > pos /\ \A j \in Live(d) : j > pos => i <= j
                    ELSE 0

\* ------------------------------------------------------------------- state
VARIABLES
  active_connections,   \* dict session_token -> WebSocket (the connection's number)
  user_sessions,        \* dict session_token -> user_info (its username)
  username_to_session,  \* dict username -> session_token (NoTok: no such key)
  session,              \* user_sessions table: the number of the user's active token, 0 none
  is_online,            \* users.is_online
  pc,                   \* per handler task: the await it is suspended in
  loc,                  \* per handler task: its local variables
  transport,            \* per connection: "new", "open", "closed", or "stalled": the
                        \* client has stopped reading and a send to it does not complete
  lastList,             \* per open connection: users of the last user_list_update
                        \* its client received
  messages,             \* messages table: the number of rows
  err,                  \* per running or crashed handler task: the last exception
                        \* raised in it
  tdown,                \* per handler task in teardown: what disconnect(token) found
  nframes,              \* frames read so far
  users,                \* users table: the usernames registered
  budget                \* connections and frames the environment supplies in this run

vars == <<active_connections, user_sessions, username_to_session, session, is_online,
          pc, loc, transport, lastList, messages, err, tdown, nframes, users, budget>>

NoRecipient == "<none>"        \* the frame has no recipient (None)
NoMsg == [type |-> "none", users |-> << >>, reason |-> "none", who |-> NoUser,
          to |-> NoRecipient, delivered |-> FALSE,
          row |-> 0]           \* the row of the messages table that holds its content

\* the locals of a handler task that is in none of the manager's methods
NoLoc == [token |-> NoTok,      \* websocket_endpoint: token
          phase |-> "none",     \* "connect": in manager.connect; "loop": in the try
                                \* block; "teardown": in an except block
          old |-> NoTok,        \* connect: old_session
          cur_k |-> NoTok,      \* broadcast / send_personal_message: session_token
          cur_v |-> 0,          \* the websocket being closed or sent to
          it_pos |-> 0,         \* the dict iterator: index of the last entry visited,
          it_used |-> 0,        \*   the dict's size when the iterator was made,
          it_len |-> 0,         \*   entries it still expects
          failed |-> << >>,     \* broadcast: failed_sessions
          msg |-> NoMsg,        \* the envelope being sent
          excl |-> NoTok,       \* broadcast: exclude_session
          kind |-> "none",      \* the frame type being handled
          snap |-> {},          \* the connections registered when the broadcast began
          sent |-> {},          \* the connections this broadcast has sent to
          lost |-> {},          \* the connections whose send raised in this broadcast
          newer |-> {},         \* the handlers that began a broadcast of the user
                                \*   list after this one began
          late |-> {}]          \* the connections that one of those has sent to

\* The whole state as one record, so that the code between two awaits can be
\* written as a composition of functions on it.
St == [ac |-> active_connections, us |-> user_sessions, u2s |-> username_to_session,
       online |-> is_online, pc |-> pc, loc |-> loc, tr |-> transport,
       view |-> lastList, messages |-> messages, err |-> err,
       tdown |-> tdown,
       rv |-> NoUser,       \* the value the last call returned (NoUser: None)
       exc |-> "none"]      \* the exception propagating out of the last call

Commit(s) ==
  /\ active_connections' = s.ac
  /\ user_sessions' = s.us
  /\ username_to_session' = s.u2s
  /\ is_online' = s.online
  /\ pc' = s.pc
  /\ loc' = s.loc
  /\ transport' = s.tr
  /\ lastList' = s.view
  /\ messages' = s.messages
  /\ err' = s.err
  /\ tdown' = s.tdown

\* -------------------------------------------------------- ConnectionManager
\* get_active_users(): the usernames of user_sessions.values(), in dict order
get_active_users(s) == Values(s.us)

\* is_user_online(username)
is_user_online(s, username) == s.u2s[username] # NoTok

\* set_user_online_status(user_id, is_online)
set_user_online_status(s, username, flag) ==
  IF username \in Users THEN [s EXCEPT !.online[username] = flag] ELSE s

\* disconnect that leaves the username index alone
disconnect_keep_index(s, session_token) ==
  IF Has(s.ac, session_token) /\ Has(s.us, session_token)
  THEN LET username == Get(s.us, session_token)
           s1 == [s EXCEPT !.ac = Del(s.ac, session_token, 0),
                           !.us = Del(s.us, session_token, NoUser)]
       IN [set_user_online_status(s1, username, FALSE) EXCEPT !.rv = username]
  ELSE [s EXCEPT !.rv = NoUser]

\* disconnect(session_token): s.rv is the username returned (NoUser: None),
\* s.exc the KeyError of a del whose key is missing
disconnect(s, session_token) ==
  IF Has(s.ac, session_token)
  THEN LET known == Has(s.us, session_token)
           username == IF known THEN Get(s.us, session_token) ELSE "Unknown"
           s1 == [s EXCEPT !.ac = Del(s.ac, session_token, 0)]
       IN IF ~known THEN [s1 EXCEPT !.exc = "KeyError"]
          ELSE LET s2 == [s1 EXCEPT !.us = Del(s.us, session_token, NoUser),
                                    !.u2s = [u \in Users |-> IF u = username THEN NoTok ELSE @[u]]]
               IN [set_user_online_status(s2, username, FALSE) EXCEPT !.rv = username]
  ELSE [s EXCEPT !.rv = NoUser]

\* websocket.send_text(message) arriving at connection d
Deliver(s, d, m) ==
  IF m.type = "user_list_update" THEN [s EXCEPT !.view[d] = m.users] ELSE s

\* ------------------------------------------------------- websocket_endpoint
\* the locals that outlive a call of a manager method
Locals(s, c, phase) == [NoLoc EXCEPT !.token = s.loc[c].token, !.phase = phase]

\* the transport of connection d closes: its client has seen its last envelope
Closed(s, d) ==
  [s EXCEPT !.tr[d] = "closed", !.view[d] = << >>]

\* the handler function returns: the server closes the transport
Finish(s, c) ==
  [Closed(s, c) EXCEPT !.pc[c] = "done", !.loc[c] = NoLoc, !.tdown[c] = "none",
                       !.err[c] = "none", !.exc = "none"]

\* an exception leaves the handler function: the server closes the transport
Crash(s, c, e) ==
  [Closed(s, c) EXCEPT !.pc[c] = "crashed", !.loc[c] = NoLoc, !.tdown[c] = "none",
                       !.err[c] = e, !.exc = "none"]

\* back in the while loop: await websocket.receive_text()
Receive(s, c) == [s EXCEPT !.pc[c] = "recv", !.loc[c] = Locals(s, c, "loop")]

RECURSIVE Raise(_, _, _)

\* a call of a manager method returns to websocket_endpoint
Return(s, c) ==
  CASE s.loc[c].phase = "teardown" -> Finish(s, c)
    [] OTHER -> Receive(s, c)

\* broadcast without the cleanup loop: the failed sessions keep their entries
BroadcastCleanup_none(s, c) == Return(s, c)

\* broadcast, after the sweep: disconnect every failed session
BroadcastCleanup(s, c) ==
  LET failed == s.loc[c].failed
      F[i \in 0..Len(failed)] ==
        IF i = 0 THEN s
        ELSE IF F[i-1].exc # "none" THEN F[i-1]
        ELSE disconnect(F[i-1], failed[i])
      s1 == F[Len(failed)]
  IN IF s1.exc # "none" THEN Raise(s1, c, s1.exc) ELSE Return(s1, c)

\* broadcast, the for loop from the iterator's next() to the await of
\* send_text: next() raises RuntimeError when the dict's size differs from
\* its size at the start, and when it finds more entries than it had then
RECURSIVE BroadcastLoop(_, _)
BroadcastLoop(s, c) ==
  LET l == s.loc[c]
      i == NextLive(s.ac, l.it_pos)
  IN IF l.it_used # Used(s.ac) THEN Raise(s, c, "RuntimeError")
     ELSE IF i = 0 THEN BroadcastCleanup(s, c)
     ELSE IF l.it_len = 0 THEN Raise(s, c, "RuntimeError")
     ELSE LET s1 == [s EXCEPT !.loc[c].it_pos = i, !.loc[c].it_len = @ - 1]
          IN IF l.excl # NoTok /\ s.ac[i].k = l.excl
             THEN BroadcastLoop(s1, c)
             ELSE [s1 EXCEPT !.pc[c] = "bc_send",
                             !.loc[c].cur_k = s.ac[i].k,
                             !.loc[c].cur_v = s.ac[i].v]

\* handler x is inside a broadcast of the user list
InUserList(s, x) ==
  s.pc[x] = "bc_send" /\ s.loc[x].msg.type = "user_list_update"

\* handler c begins to broadcast m: a user list is newer than the ones that
\* are being broadcast
Begun(s, c, m) ==
  [s EXCEPT !.loc = [x \in Conns |->
     IF x = c THEN [s.loc[x] EXCEPT !.newer = {}, !.late = {}]
     ELSE IF m.type = "user_list_update" /\ InUserList(s, x)
     THEN [s.loc[x] EXCEPT !.newer = @ \cup {c}]
     ELSE s.loc[x]]]

\* handler c has sent the user list to connection d: the broadcasts that
\* began before it and have not called send_text for d have been overtaken
\* there (two sends to one socket that are pending together complete in the
\* order the server writes them)
Overtaken(s, c, d) ==
  [s EXCEPT !.loc = [x \in Conns |->
     IF x # c /\ InUserList(s, x) /\ c \in s.loc[x].newer /\ s.loc[x].cur_v # d
     THEN [s.loc[x] EXCEPT !.late = @ \cup {d}]
     ELSE s.loc[x]]]

\* broadcast(message, exclude_session), up to its first await
broadcast(s, c, m, exclude_session) ==
  BroadcastLoop([Begun(s, c, m)
                   EXCEPT !.loc[c].failed = << >>,
                          !.loc[c].msg = m,
                          !.loc[c].excl = exclude_session,
                          !.loc[c].it_pos = 0,
                          !.loc[c].it_used = Used(s.ac),
                          !.loc[c].it_len = Used(s.ac),
                          !.loc[c].snap = {s.ac[i].v : i \in Live(s.ac)},
                          !.loc[c].sent = {},
                          !.loc[c].lost = {}], c)

\* broadcast_user_list_update(message)
broadcast_user_list_update(s, c, reason, who) ==
  broadcast(s, c, [NoMsg EXCEPT !.type = "user_list_update",
                                !.users = get_active_users(s),
                                !.reason = reason, !.who = who], NoTok)

\* the except blocks of websocket_endpoint: disconnect(token) and, if it
\* returned a username, broadcast_user_list_update
Teardown(s, c, e) ==
  LET t == s.loc[c].token
      found == IF ~Has(s.ac, t) THEN "absent"
               ELSE IF Get(s.ac, t) = c THEN "own" ELSE "other"
      s0 == [s EXCEPT !.err[c] = e, !.tdown[c] = found,
                      !.loc[c] = Locals(s, c, "teardown"), !.exc = "none"]
      s1 == disconnect(s0, t)
  IN IF s1.exc # "none" THEN Crash(s1, c, s1.exc)
     ELSE IF s1.rv # NoUser
     THEN broadcast_user_list_update(s1, c,
            IF e = "WebSocketDisconnect" THEN "left" ELSE "error", s1.rv)
     ELSE Finish(s1, c)

\* exception e reaches websocket_endpoint: caught in the try block only
Raise(s, c, e) ==
  IF s.loc[c].phase = "loop" THEN Teardown(s, c, e) ELSE Crash(s, c, e)

\* connect, after the eviction: store the new connection, set the user
\* online, broadcast the user list
connect_store(s, c) ==
  LET t == s.loc[c].token
      username == t.user
      s1 == [s EXCEPT !.ac = Put(s.ac, t, c),
                      !.us = Put(s.us, t, username),
                      !.u2s[username] = t]
  IN broadcast_user_list_update(set_user_online_status(s1, username, TRUE),
                                c, "joined", username)

\* connect_check without the eviction branch: the new connection is stored
\* whether or not the user is connected
connect_check_no_evict(s, c) == connect_store(s, c)

\* connect, from the return of websocket.accept() to the next await
connect_check(s, c) ==
  LET username == s.loc[c].token.user
      old_session == s.u2s[username]
  IN IF old_session # NoTok /\ Has(s.ac, old_session)
     THEN [s EXCEPT !.pc[c] = "close_old",
                    !.loc[c].old = old_session,
                    !.loc[c].cur_v = Get(s.ac, old_session)]
     ELSE connect_store(s, c)

\* connect_evict without the two dels: the old entry stays
connect_evict_keep_old(s, c) ==
  IF ~Has(s.ac, s.loc[c].old) THEN Crash(s, c, "KeyError") ELSE connect_store(s, c)

\* connect_evict with the first del only: the old user_sessions entry stays
connect_evict_one_del(s, c) ==
  IF ~Has(s.ac, s.loc[c].old) THEN Crash(s, c, "KeyError")
  ELSE connect_store([s EXCEPT !.ac = Del(s.ac, s.loc[c].old, 0)], c)

\* connect, from the return of the old websocket's close() on: the two dels
connect_evict(s, c) ==
  LET old_session == s.loc[c].old IN
  IF ~Has(s.ac, old_session) THEN Crash(s, c, "KeyError")
  ELSE LET s1 == [s EXCEPT !.ac = Del(s.ac, old_session, 0)]
       IN IF ~Has(s.us, old_session) THEN Crash(s1, c, "KeyError")
          ELSE connect_store([s1 EXCEPT !.us = Del(s.us, old_session, NoUser)], c)

\* verify_session_token that accepts every token
verify_session_token_any(t) == TRUE

\* verify_session_token(token): the token is the active one of its user
verify_session_token(t) == t.n >= 1 /\ session[t.user] = t.n

\* send_personal_message that finds nobody connected
send_personal_message_none(s, c, m, username) ==
  [s EXCEPT !.loc[c].msg = m, !.rv = "False"]

\* send_personal_message(message, username), up to its await
send_personal_message(s, c, m, username) ==
  LET session_token == IF username \in Users THEN s.u2s[username] ELSE NoTok
      s1 == [s EXCEPT !.loc[c].msg = m]
  IN IF session_token # NoTok /\ Has(s.ac, session_token)
     THEN [s1 EXCEPT !.pc[c] = "pm_send",
                     !.loc[c].cur_k = session_token,
                     !.loc[c].cur_v = Get(s.ac, session_token)]
     ELSE [s1 EXCEPT !.rv = "False"]

\* websocket_endpoint after send_personal_message returned success: the
\* chat branch sends the confirmation, the typing branch reads on
AfterPersonal(s, c, success) ==
  IF s.loc[c].kind = "chat"
  THEN [s EXCEPT !.pc[c] = "confirm",
                 !.loc[c] = [Locals(s, c, "loop") EXCEPT
                               !.kind = "chat",
                               !.msg = [s.loc[c].msg EXCEPT !.type = "chat_sent",
                                                            !.delivered = success]]]
  ELSE Receive(s, c)

\* an error envelope to the handler's own websocket
SendError(s, c, reason) ==
  [s EXCEPT !.pc[c] = "send_err",
            !.loc[c].msg = [NoMsg EXCEPT !.type = "error", !.reason = reason]]

\* ----------------------------------------------------------------- actions
Init ==
  /\ active_connections = << >>
  /\ user_sessions = << >>
  /\ username_to_session = [u \in Users |-> NoTok]
  /\ session = [u \in Users |-> 0]
  /\ is_online = [u \in Users |-> FALSE]
  /\ pc = [c \in Conns |-> "init"]
  /\ loc = [c \in Conns |-> NoLoc]
  /\ transport = [c \in Conns |-> "new"]
  /\ lastList = [c \in Conns |-> << >>]
  /\ messages = 0
  /\ err = [c \in Conns |-> "none"]
  /\ tdown = [c \in Conns |-> "none"]
  /\ nframes = 0
  /\ users = {"A", "B"}
  /\ budget = MaxInputs

\* token t is held by a handler task or is a key of the registry
InUse(t) ==
  \/ Has(active_connections, t)
  \/ Has(user_sessions, t)
  \/ \E u \in Users : username_to_session[u] = t
  \/ \E c \in Conns :
       \/ t \in {loc[c].token, loc[c].old, loc[c].cur_k, loc[c].excl}
       \/ \E i \in 1..Len(loc[c].failed) : loc[c].failed[i] = t

\* login_user: the user's sessions are invalidated and a new token is issued.
\* Tokens are random strings: the numbering counts the tokens that were
\* presented to /ws (a login whose token nobody holds only renames it), and
\* "A" names the user who logs in first.
Login(u) ==
  /\ u \in users
  /\ session[u] < MaxLogins
  /\ session[u] > 0 => InUse([user |-> u, n |-> session[u]])
  /\ u # "A" => session["A"] > 0
  /\ session' = [session EXCEPT ![u] = @ + 1]
  /\ UNCHANGED <<active_connections, user_sessions, username_to_session, is_online, pc,
                 loc, transport, lastList, messages, err, tdown, nframes, users, budget>>

\* websocket_endpoint is called for a new connection with token t
\* (connections are numbered in the order they arrive)
Start(c, t) ==
  /\ pc[c] = "init"
  /\ c > 1 => pc[c-1] # "init"
  /\ c + nframes <= budget
  /\ IF verify_session_token(t)
     THEN /\ pc' = [pc EXCEPT ![c] = "accept"]
          /\ loc' = [loc EXCEPT ![c] = [NoLoc EXCEPT !.token = t, !.phase = "connect"]]
     ELSE /\ pc' = [pc EXCEPT ![c] = "close4001"]
          /\ loc' = loc
  /\ UNCHANGED <<active_connections, user_sessions, username_to_session, session,
                 is_online, transport, lastList, messages, err, tdown, nframes, users,
                 budget>>

\* await websocket.close(code=4001) returns, and the handler
Reject(c) ==
  /\ pc[c] = "close4001"
  /\ Commit(Finish(St, c))
  /\ UNCHANGED <<session, nframes, users, budget>>

\* await websocket.accept() returns
Accept(c) ==
  /\ pc[c] = "accept"
  /\ Commit(connect_check([St EXCEPT !.tr[c] = "open"], c))
  /\ UNCHANGED <<session, nframes, users, budget>>

\* await self.active_connections[old_session].close() returns; an error of
\* close (the transport is closed already) is swallowed
CloseOld(c) ==
  /\ pc[c] = "close_old"
  /\ Commit(connect_evict(Closed(St, loc[c].cur_v), c))
  /\ UNCHANGED <<session, nframes, users, budget>>

\* broadcast: await websocket.send_text(message) returns or raises
BroadcastSend(c) ==
  /\ pc[c] = "bc_send"
  /\ transport[loc[c].cur_v] # "stalled"
  /\ LET d == loc[c].cur_v
         s0 == IF loc[c].msg.type = "user_list_update"
               THEN Overtaken(St, c, d) ELSE St
         s1 == IF transport[d] = "open"
               THEN [Deliver(s0, d, loc[c].msg) EXCEPT !.loc[c].sent = @ \cup {d}]
               ELSE [St EXCEPT !.loc[c].failed = Append(@, loc[c].cur_k),
                               !.loc[c].lost = @ \cup {d}]
     IN Commit(BroadcastLoop(s1, c))
  /\ UNCHANGED <<session, nframes, users, budget>>

\* send_personal_message: await websocket.send_text(message) returns or raises
PersonalSend(c) ==
  /\ pc[c] = "pm_send"
  /\ transport[loc[c].cur_v] # "stalled"
  /\ LET d == loc[c].cur_v
     IN IF transport[d] = "open"
        THEN Commit(AfterPersonal(Deliver(St, d, loc[c].msg), c, TRUE))
        ELSE LET s1 == disconnect(St, loc[c].cur_k)
             IN Commit(IF s1.exc # "none" THEN Raise(s1, c, s1.exc)
                       ELSE AfterPersonal(s1, c, FALSE))
  /\ UNCHANGED <<session, nframes, users, budget>>

\* websocket_endpoint: await websocket.send_text(...) to the handler's own
\* websocket (an error envelope or the chat_sent confirmation)
OwnSend(c) ==
  /\ pc[c] \in {"send_err", "confirm"}
  /\ transport[c] # "stalled"
  /\ IF transport[c] = "open"
     THEN Commit(Receive(Deliver(St, c, loc[c].msg), c))
     ELSE Commit(Raise(St, c, "SendError"))
  /\ UNCHANGED <<session, nframes, users, budget>>

\* the client goes away
ClientClose(c) ==
  /\ transport[c] = "open"
  /\ Commit(Closed(St, c))
  /\ UNCHANGED <<session, nframes, users, budget>>

\* await websocket.receive_text() raises WebSocketDisconnect
ReceiveDisconnect(c) ==
  /\ pc[c] = "recv"
  /\ transport[c] = "closed"
  /\ Commit(Teardown(St, c, "WebSocketDisconnect"))
  /\ UNCHANGED <<session, nframes, users, budget>>

\* the frames a client sends: not JSON; JSON that is no object; a chat, a
\* typing or a request_user_list message; a message of another type
Recipients == {NoRecipient, Unregistered} \cup Users
Frames == [kind : {"chat", "typing"}, recipient : Recipients]
          \cup [kind : {"invalid", "nonobject", "request_user_list", "other"},
                recipient : {NoRecipient}]

\* get_user_by_username that finds a row for every name
get_user_by_username_any(recipient) == TRUE

\* get_user_by_username(recipient) finds a row
get_user_by_username(recipient) == recipient \in users

\* save_message that inserts nothing and raises nothing
save_message_skip(s, saved) == s

\* save_message that never raises
save_message_quiet(s, saved) == [s EXCEPT !.messages = @ + 1]

\* save_message(content, sender_id, recipient_id): a row is inserted, or the
\* database raises
save_message(s, saved) ==
  IF saved THEN [s EXCEPT !.messages = @ + 1] ELSE [s EXCEPT !.exc = "Exception"]

\* the body of the while loop for frame f; saved: save_message succeeds
HandleFrame(s, c, f, saved) ==
  LET username == s.loc[c].token.user
      s0 == [s EXCEPT !.loc[c].kind = f.kind]
      personal(s1, m) ==
        LET s2 == send_personal_message(s1, c, m, f.recipient)
        IN IF s2.pc[c] = "pm_send" THEN s2 ELSE AfterPersonal(s2, c, FALSE)
  IN CASE f.kind = "invalid" -> SendError(s0, c, "Invalid message format")
       [] f.kind = "nonobject" -> Raise(s0, c, "AttributeError")
       [] f.kind = "chat" ->
            IF f.recipient # NoRecipient /\ ~get_user_by_username(f.recipient)
            THEN SendError(s0, c, "not found")
            ELSE LET s1 == save_message(s0, saved)
                     m == [NoMsg EXCEPT !.type = "chat", !.who = username,
                                        !.to = f.recipient, !.row = s1.messages]
                 IN IF s1.exc # "none"
                    THEN SendError([s1 EXCEPT !.exc = "none"], c, "Failed to save message")
                    ELSE IF f.recipient = NoRecipient THEN broadcast(s1, c, m, NoTok)
                    ELSE personal(s1, m)
       [] f.kind = "typing" ->
            LET m == [NoMsg EXCEPT !.type = "typing", !.who = username,
                                   !.to = f.recipient]
            IN IF f.recipient # NoRecipient THEN personal(s0, m)
               ELSE broadcast(s0, c, m, s.loc[c].token)
       [] f.kind = "request_user_list" ->
            broadcast_user_list_update(s0, c, "none", NoUser)
       [] OTHER -> Receive(s0, c)

\* await websocket.receive_text() returns frame f
Frame(c, f, saved) ==
  /\ pc[c] = "recv"
  /\ transport[c] = "open"
  /\ Cardinality({d \in Conns : pc[d] # "init"}) + nframes < budget
  /\ nframes' = nframes + 1
  /\ Commit(HandleFrame(St, c, f, saved))
  /\ UNCHANGED <<session, users, budget>>

Next ==
  \/ \E u \in Users : Login(u)
  \/ \E c \in Conns, t \in Tokens : Start(c, t)
  \/ \E c \in Conns : Reject(c)
  \/ \E c \in Conns : Accept(c)
  \/ \E c \in Conns : CloseOld(c)
  \/ \E c \in Conns : BroadcastSend(c)
  \/ \E c \in Conns : PersonalSend(c)
  \/ \E c \in Conns : OwnSend(c)
  \/ \E c \in Conns : ClientClose(c)
  \/ \E c \in Conns : ReceiveDisconnect(c)
  \/ \E c \in Conns, f \in Frames, saved \in BOOLEAN : Frame(c, f, saved)

Spec == Init /\ [][Next]_vars

\* The state after A, B and C logged in and connected in turn, every join
\* broadcast delivered: the three handlers wait in receive_text.
ServingWith(first) ==
  LET tok(u) == [user |-> u, n |-> 1]
      who == <<"A", "B", "C">>
  IN
  /\ active_connections = [i \in 1..3 |-> [k |-> tok(who[i]), v |-> i]]
  /\ user_sessions = [i \in 1..3 |-> [k |-> tok(who[i]), v |-> who[i]]]
  /\ username_to_session = [u \in Users |-> tok(u)]
  /\ session = [u \in Users |-> 1]
  /\ is_online = [u \in Users |-> TRUE]
  /\ pc = [c \in Conns |-> IF c <= 3 THEN "recv" ELSE "init"]
  /\ loc = [c \in Conns |->
              IF c <= 3 THEN [NoLoc EXCEPT !.token = tok(who[c]), !.phase = "loop"]
              ELSE NoLoc]
  /\ transport = [c \in Conns |-> IF c = 1 THEN first ELSE IF c <= 3 THEN "open" ELSE "new"]
  /\ lastList = [c \in Conns |-> IF c <= 3 THEN who ELSE << >>]
  /\ messages = 0
  /\ err = [c \in Conns |-> "none"]
  /\ tdown = [c \in Conns |-> "none"]
  /\ nframes = 0
  /\ users = Users

Serving == ServingWith("open")

InitServing == Serving /\ budget = MaxServing

SpecServing == InitServing /\ [][Next]_vars

\* The same state after A's client has stopped reading from its socket.
InitStalled == ServingWith("stalled") /\ budget = MaxServing

SpecStalled == InitStalled /\ [][Next]_vars

\* ------------------------------------------------------------------ claims
\* the live entries of the registry whose user is u
EntriesOf(u) == {i \in Live(user_sessions) : user_sessions[i].v = u}
KeysOf(u) == {i \in Live(active_connections) : active_connections[i].k.user = u}
\* connection c has an entry of active_connections bound to it
Bound(c) == \E i \in Live(active_connections) : active_connections[i].v = c
\* the handler task of c has taken a step
\* (newer and late are written by the broadcasts that overtake c's)
Own(l) == [l EXCEPT !.newer = {}, !.late = {}]
Stepped(c) == Own(loc'[c]) # Own(loc[c]) \/ pc'[c] # pc[c]
Running(c) == pc[c] \notin {"init", "close4001", "done", "crashed"}

\* C1: no double occupancy. In every reachable state the registry holds at
\* most one entry of user_sessions and at most one key of active_connections
\* for any one username.
C1_NoDoubleOccupancy ==
  \A u \in Users : Cardinality(EntriesOf(u)) <= 1 /\ Cardinality(KeysOf(u)) <= 1

\* two handler tasks of one user run, the later one holds the user's entry
C1_Witness ==
  \E c, d \in Conns :
    /\ d < c /\ Running(c) /\ Running(d)
    /\ loc[c].token.user = loc[d].token.user
    /\ loc[c].token # loc[d].token
    /\ Has(active_connections, loc[c].token)
    /\ Get(active_connections, loc[c].token) = c
    /\ Cardinality(EntriesOf(loc[c].token.user)) = 1

\* C2 (as claimed): while connect is suspended closing the old transport of
\* an identity, that identity has exactly one registry entry.
C2_AdmitAtomic ==
  \A c \in Conns :
    pc[c] = "close_old" => Cardinality(EntriesOf(loc[c].token.user)) = 1

\* C3: reconnection with a fresh token. In the step in which connect stores
\* the entry of a connection whose user was connected under another token,
\* the old transport is closed, the old token is no key of the registry, and
\* get_active_users() holds the user exactly once, bound to the new connection.
C3_Reconnection ==
  [][\A c \in Conns :
       (pc[c] = "close_old" /\ pc'[c] = "bc_send" /\ loc[c].old # loc[c].token)
       => /\ transport'[loc[c].cur_v] = "closed"
          /\ ~Has(active_connections', loc[c].old)
          /\ ~Has(user_sessions', loc[c].old)
          /\ Cardinality({i \in 1..Len(get_active_users(St)') :
                            get_active_users(St)'[i] = loc[c].token.user}) = 1
          /\ Has(active_connections', loc[c].token)
          /\ Get(active_connections', loc[c].token) = c
          /\ Get(user_sessions', loc[c].token) = loc[c].token.user]_vars

\* connect has stored the entry of a connection that evicted another token's
C3_Witness ==
  \E c \in Conns :
    /\ pc[c] = "bc_send" /\ loc[c].phase = "connect"
    /\ loc[c].old \notin {NoTok, loc[c].token}
    /\ Has(active_connections, loc[c].token)
    /\ Get(active_connections, loc[c].token) = c
    /\ get_active_users(St) = <<loc[c].token.user>>

\* C4 (as claimed): no call of connect or disconnect raises; no handler task
\* ends with the KeyError of a del.
C4_RegistryNeverFails ==
  \A c \in Conns : ~(pc[c] = "crashed" /\ err[c] = "KeyError")

\* C5 (as claimed): a connection whose handler is in its serving loop and
\* whose transport is open has the registry entry of its token, bound to it.
C5_LiveHasEntry ==
  \A c \in Conns :
    (loc[c].phase = "loop" /\ transport[c] = "open")
    => /\ Has(active_connections, loc[c].token)
       /\ Get(active_connections, loc[c].token) = c

\* C6 (as claimed): the teardown's disconnect(token) of a connection that has
\* no entry returns None (the handler ends without a broadcast) and leaves
\* the three dicts unchanged.
C6_RemoveIdempotent ==
  [][\A c \in Conns :
       (pc[c] = "recv" /\ transport[c] = "closed" /\ Stepped(c) /\ ~Bound(c))
       => /\ pc'[c] = "done"
          /\ UNCHANGED <<active_connections, user_sessions, username_to_session>>]_vars

\* C7 (as claimed): a handler issues a departure broadcast only if its
\* teardown removed the entry of its own connection; the teardown of an
\* evicted connection issues none.
C7_TeardownAnnounces ==
  \A c \in Conns :
    (loc[c].phase = "teardown" /\ pc[c] = "bc_send") => tdown[c] = "own"

\* C8 (as claimed): when the single send of send_personal_message fails, the
\* recipient's entry is removed and, the registry not being empty, a
\* user_list_update is broadcast.
C8_SelfHealingSend ==
  [][\A c \in Conns :
       (pc[c] = "pm_send" /\ transport[loc[c].cur_v] # "open" /\ Stepped(c))
       => /\ ~Has(active_connections', loc[c].cur_k)
          /\ Used(active_connections') > 0
             => pc'[c] = "bc_send" /\ loc'[c].msg.type = "user_list_update"]_vars

\* C9 (as claimed): whenever no handler is inside connect, a send, a
\* broadcast or a teardown, every registered open connection last received
\* the user list get_active_users() returns now.
Quiescent ==
  \A c \in Conns :
    \/ pc[c] \in {"init", "done", "crashed"}
    \/ pc[c] = "recv" /\ transport[c] = "open"
C9_PresenceConverges ==
  Quiescent =>
    \A c \in Conns :
      (pc[c] = "recv" /\ Bound(c)) => lastList[c] = get_active_users(St)

\* C10 (as claimed): a broadcast sends only to connections registered when
\* it began, and never raises to its caller.
C10_SnapshotBroadcast ==
  [][\A c \in Conns :
       /\ (pc[c] = "bc_send" /\ Stepped(c) /\ transport[loc[c].cur_v] = "open")
          => loc[c].cur_v \in loc[c].snap
       /\ (pc[c] = "bc_send" /\ Stepped(c)) => err'[c] # "RuntimeError"]_vars

\* ---------------------------------------------------- claims on broadcast
\* the step of handler c in which its call of broadcast ends: it returns to
\* the caller or an exception leaves it
BroadcastEnds(c) ==
  /\ pc[c] = "bc_send" /\ Stepped(c)
  /\ pc'[c] # "bc_send" \/ loc'[c].phase # loc[c].phase
\* the step in which the call returns normally to websocket_endpoint
BroadcastReturns(c) ==
  /\ pc[c] = "bc_send" /\ Stepped(c)
  /\ pc'[c] = "recv" \/ (loc[c].phase = "teardown" /\ pc'[c] = "done")
\* the connections the broadcast of c has sent to and has recorded as
\* failed, the send in progress included
Got(c) == loc[c].sent \cup
          (IF transport[loc[c].cur_v] = "open" THEN {loc[c].cur_v} ELSE {})
Failed(c) == loc[c].lost \cup
             (IF transport[loc[c].cur_v] = "open" THEN {} ELSE {loc[c].cur_v})
\* the connections registered when the broadcast began, the excluded one
\* (the caller's own, under exclude_session = token) left out
Addressees(c) == loc[c].snap \ (IF loc[c].excl = NoTok THEN {} ELSE {c})

\* C11 (as claimed): when a call of broadcast ends, every connection that
\* was registered when it began and is not the excluded one was sent the
\* message or recorded as failed, or has disconnected and has no entry any
\* more; no connection is sent the message twice, and none that was sent
\* the message is recorded as failed.
C11_BroadcastComplete ==
  [][\A c \in Conns :
       /\ BroadcastEnds(c) =>
            \A x \in Addressees(c) :
              \/ x \in Got(c) \cup Failed(c)
              \/ transport'[x] # "open" /\ ~Bound(x)'
       /\ (pc[c] = "bc_send" /\ Stepped(c)) =>
            /\ loc[c].cur_v \notin loc[c].sent \cup loc[c].lost
            /\ Got(c) \cap Failed(c) = {}]_vars

C13_FailureAbsorbed ==
  [][\A c \in Conns :
       (BroadcastEnds(c) /\ Failed(c) # {})
       => /\ err'[c] = err[c]
          /\ pc'[c] # "crashed"
          /\ Used(active_connections') > 0
             => /\ pc'[c] = "bc_send"
                /\ loc'[c].phase = loc[c].phase
                /\ loc'[c].msg.type = "user_list_update"]_vars

\* ------------------------------------------------------- claims on frames
\* C14 (as claimed): the broadcast of a global chat envelope never sends it
\* to the connection of the handler that read the frame; the envelope it
\* sends to the others is marked global (no recipient).
C14_NoSelfEcho ==
  [][\A c \in Conns :
       (/\ pc[c] = "bc_send" /\ Stepped(c)
        /\ loc[c].msg.type = "chat"
        /\ transport[loc[c].cur_v] = "open")
       => /\ loc[c].cur_v # c
          /\ loc[c].msg.to = NoRecipient]_vars

\* C15: persist-before-deliver. Every chat or chat_sent envelope a handler
\* holds or is sending carries a message that is a row of the messages table.
C15_PersistBeforeDeliver ==
  \A c \in Conns :
    loc[c].msg.type \in {"chat", "chat_sent"}
    => loc[c].msg.row >= 1 /\ loc[c].msg.row <= messages

\* a chat envelope is being sent to another connection than the sender's
C15_Witness ==
  \E c \in Conns :
    /\ pc[c] \in {"bc_send", "pm_send"}
    /\ loc[c].msg.type = "chat" /\ loc[c].msg.row = messages
    /\ loc[c].cur_v # c /\ transport[loc[c].cur_v] = "open"

\* the handler of c reads a chat frame for recipient r
ChatFrame(c, r, saved) == Frame(c, [kind |-> "chat", recipient |-> r], saved)
\* the three dicts of the registry and the messages table stay as they are
NoEffect ==
  UNCHANGED <<active_connections, user_sessions, username_to_session, is_online, messages>>

\* C16: persistence failure. When save_message raises for a chat frame, no
\* row is written, the registry is unchanged and the handler's next await is
\* the send of one error envelope to its own websocket; when that send
\* returns the handler is back in receive_text, its entry unchanged.
C16_PersistenceFailure ==
  [][\A c \in Conns :
       /\ (\E r \in users \cup {NoRecipient} : ChatFrame(c, r, FALSE))
          => /\ pc'[c] = "send_err"
             /\ loc'[c].msg = [NoMsg EXCEPT !.type = "error",
                                            !.reason = "Failed to save message"]
             /\ loc'[c].phase = "loop"
             /\ NoEffect
       /\ (/\ pc[c] = "send_err" /\ loc[c].msg.reason = "Failed to save message"
           /\ Stepped(c) /\ transport[c] = "open")
          => /\ pc'[c] = "recv" /\ loc'[c].phase = "loop"
             /\ NoEffect]_vars

\* the error envelope of a failed save is being sent to a registered sender
\* while another connection is registered and open
C16_Witness ==
  \E c, d \in Conns :
    /\ pc[c] = "send_err" /\ loc[c].msg.reason = "Failed to save message"
    /\ transport[c] = "open" /\ Bound(c)
    /\ d # c /\ transport[d] = "open" /\ Bound(d)

\* C17: unknown recipient. A chat frame whose recipient is no registered
\* user is not saved and changes nothing in the registry; the handler's next
\* await is the send of one error envelope to its own websocket, and when
\* that send returns the handler is back in receive_text.
C17_UnknownRecipient ==
  [][\A c \in Conns :
       /\ (\E saved \in BOOLEAN : ChatFrame(c, Unregistered, saved))
          => /\ pc'[c] = "send_err"
             /\ loc'[c].msg = [NoMsg EXCEPT !.type = "error", !.reason = "not found"]
             /\ loc'[c].phase = "loop"
             /\ NoEffect
       /\ (/\ pc[c] = "send_err" /\ loc[c].msg.reason = "not found"
           /\ Stepped(c) /\ transport[c] = "open")
          => /\ pc'[c] = "recv" /\ loc'[c].phase = "loop"
             /\ NoEffect]_vars

\* the error envelope for an unknown recipient is being sent to a registered
\* sender while another connection is registered and open
C17_Witness ==
  \E c, d \in Conns :
    /\ pc[c] = "send_err" /\ loc[c].msg.reason = "not found"
    /\ transport[c] = "open" /\ Bound(c)
    /\ d # c /\ transport[d] = "open" /\ Bound(d)

\* C18: private chat. A chat frame for a registered user r is saved once.
\* If r has a registered connection the chat envelope is sent to that
\* connection and to no other, and the confirmation that follows carries
\* delivered = the result of that send; if r has none the confirmation
\* carries delivered = FALSE.  The confirmation is the one envelope sent
\* to the sender, no error envelope is, and the handler then reads on.
C18_PrivateChat ==
  [][\A c \in Conns :
       /\ \A r \in users :
            ChatFrame(c, r, TRUE)
            => /\ messages' = messages + 1
               /\ UNCHANGED <<active_connections, user_sessions, username_to_session>>
               /\ loc'[c].msg.to = r /\ loc'[c].msg.who = loc[c].token.user
               /\ IF username_to_session[r] # NoTok
                     /\ Has(active_connections, username_to_session[r])
                  THEN /\ pc'[c] = "pm_send"
                       /\ loc'[c].msg.type = "chat"
                       /\ loc'[c].cur_v = Get(active_connections, username_to_session[r])
                  ELSE /\ pc'[c] = "confirm"
                       /\ loc'[c].msg.type = "chat_sent"
                       /\ loc'[c].msg.delivered = FALSE
       /\ (pc[c] = "pm_send" /\ loc[c].kind = "chat" /\ Stepped(c))
          => /\ pc'[c] = "confirm"
             /\ loc'[c].msg = [loc[c].msg EXCEPT
                                 !.type = "chat_sent",
                                 !.delivered = (transport[loc[c].cur_v] = "open")]
             /\ messages' = messages
       /\ (pc[c] = "confirm" /\ Stepped(c) /\ transport[c] = "open")
          => /\ pc'[c] = "recv" /\ loc'[c].phase = "loop"
             /\ NoEffect]_vars

\* the confirmation of a private chat that was delivered to another user's
\* connection is being sent to the sender
C18_Witness ==
  \E c \in Conns :
    /\ pc[c] = "confirm" /\ transport[c] = "open"
    /\ loc[c].msg.type = "chat_sent" /\ loc[c].msg.delivered
    /\ loc[c].msg.to \in users \ {loc[c].token.user}

\* the confirmation of a private chat to a user who is not connected
C18_WitnessOffline ==
  \E c \in Conns :
    /\ pc[c] = "confirm" /\ transport[c] = "open"
    /\ loc[c].msg.type = "chat_sent" /\ ~loc[c].msg.delivered
    /\ loc[c].msg.to \in users
    /\ username_to_session[loc[c].msg.to] = NoTok

\* C19: failed authentication. When websocket_endpoint is called with a
\* token that is not the active token of its user, the handler's only await
\* is close(code=4001) and it ends when that returns; neither step changes
\* the registry, is_online or the messages table, touches another handler
\* or another transport, or starts a broadcast.
C19_FailedAuth ==
  [][\A c \in Conns :
       /\ (\E t \in Tokens : session[t.user] # t.n /\ Start(c, t))
          => /\ pc'[c] = "close4001"
             /\ NoEffect
             /\ UNCHANGED <<loc, transport, lastList>>
       /\ (pc[c] = "close4001" /\ Stepped(c))
          => /\ pc'[c] = "done" /\ transport'[c] = "closed"
             /\ NoEffect
             /\ \A d \in Conns \ {c} :
                  /\ pc'[d] = pc[d] /\ loc'[d] = loc[d]
                  /\ transport'[d] = transport[d] /\ lastList'[d] = lastList[d]]_vars

\* a connection with a token that does not verify is being closed while
\* another connection is registered and serving
C19_Witness ==
  \E c, d \in Conns :
    /\ pc[c] = "close4001" /\ transport[c] = "new"
    /\ pc[d] = "recv" /\ transport[d] = "open" /\ Bound(d)

\* the handler of c reads a typing frame for recipient r
TypingFrame(c, r) ==
  \E saved \in BOOLEAN : Frame(c, [kind |-> "typing", recipient |-> r], saved)

\* C20 (as claimed): a typing frame writes no row.  Without recipient it is
\* broadcast with the sender's token excluded: no send of it goes to the
\* sender's connection, and when the broadcast ends every connection that
\* was registered when it began, other than the sender's, and is still
\* open and registered has been sent the envelope.  With a recipient the
\* one send goes to the connection registered for the recipient, and the
\* handler reads on.
C20_Typing ==
  [][\A c \in Conns :
       /\ TypingFrame(c, NoRecipient)
          => /\ messages' = messages
             /\ pc'[c] = "bc_send"
                => loc'[c].msg.type = "typing" /\ loc'[c].excl = loc[c].token
       /\ \A r \in Recipients \ {NoRecipient} :
            TypingFrame(c, r)
            => /\ messages' = messages
               /\ IF r \in Users /\ username_to_session[r] # NoTok
                     /\ Has(active_connections, username_to_session[r])
                  THEN /\ pc'[c] = "pm_send" /\ loc'[c].msg.type = "typing"
                       /\ loc'[c].cur_v = Get(active_connections, username_to_session[r])
                  ELSE pc'[c] = "recv"
       /\ (pc[c] = "pm_send" /\ loc[c].kind = "typing" /\ Stepped(c))
          => pc'[c] = "recv" /\ messages' = messages
       /\ (pc[c] = "bc_send" /\ loc[c].msg.type = "typing" /\ Stepped(c))
          => /\ loc[c].cur_v # c /\ messages' = messages
             /\ BroadcastEnds(c)
                => \A x \in Addressees(c) :
                     (transport'[x] = "open" /\ Bound(x)') => x \in Got(c)]_vars

\* the handler of c reads a frame that is not JSON (kind "invalid") or is
\* JSON but no object (kind "nonobject")
MalformedFrame(c, kind) ==
  \E saved \in BOOLEAN : Frame(c, [kind |-> kind, recipient |-> NoRecipient], saved)

\* C21 (as claimed): a frame that is not JSON, or is JSON but no object,
\* changes neither the registry nor the messages table; the handler's next
\* await is the send of one error envelope to its own websocket, in the
\* serving loop, and when that send returns it is back in receive_text.
C21_MalformedFrame ==
  [][\A c \in Conns :
       /\ (\E kind \in {"invalid", "nonobject"} : MalformedFrame(c, kind))
          => /\ pc'[c] = "send_err"
             /\ loc'[c].msg.type = "error"
             /\ loc'[c].phase = "loop"
             /\ NoEffect
       /\ (/\ pc[c] = "send_err" /\ loc[c].msg.reason = "Invalid message format"
           /\ Stepped(c) /\ transport[c] = "open")
          => /\ pc'[c] = "recv" /\ loc'[c].phase = "loop"
             /\ NoEffect]_vars

\* --------------------------------------------------------- liveness claims
\* A step of the handler task of c: the await it is suspended in completes.
\* The event loop runs every task whose await has completed, and accept,
\* close and send_text return or raise; receive_text raises once the
\* transport is closed.  What the clients do (Login, Start, Frame,
\* ClientClose) is under no obligation.
HandlerStep(c) ==
  \/ Reject(c) \/ Accept(c) \/ CloseOld(c) \/ BroadcastSend(c)
  \/ PersonalSend(c) \/ OwnSend(c) \/ ReceiveDisconnect(c)

\* Every handler step moves its task to a later await and the clients'
\* inputs are bounded, so a run has finitely many steps; a run that is fair
\* to the handlers ends in a state where no handler step is enabled.  These
\* are the Quiescent states: a handler steps only from a state that is not
\* Quiescent, and the guard of each handler step is its await alone.
RestIsQuiescent ==
  [][(\E c \in Conns : HandlerStep(c)) => ~Quiescent]_vars

\* the transport of c is closed or its handler has ended
Gone(c) == transport[c] = "closed" \/ pc[c] \in {"done", "crashed"}

\* C22 (as claimed): once the transport of a connection is closed or its
\* handler has ended, the entry bound to that connection is eventually
\* removed by the handlers alone: where no handler has a step left to take,
\* no such connection has an entry.
C22_NoOrphans ==
  Quiescent => \A c \in Conns : Gone(c) => ~Bound(c)

\* no handler step is enabled: every handler has ended, waits for a frame
\* of a client that is there, or waits in a send that does not complete
AtRest ==
  \A c \in Conns :
    \/ pc[c] \in {"init", "done", "crashed"}
    \/ pc[c] = "recv" /\ transport[c] # "closed"
    \/ pc[c] \in {"bc_send", "pm_send"} /\ transport[loc[c].cur_v] = "stalled"
    \/ pc[c] \in {"send_err", "confirm"} /\ transport[c] = "stalled"

\* a handler steps only from a state that is not AtRest
RestIsFinal ==
  [][(\E c \in Conns : HandlerStep(c)) => ~AtRest]_vars

\* C23 (as claimed): a recipient whose send does not complete does not stall
\* a broadcast: the broadcast returns and every other recipient is sent to.
\* Where no handler has a step left to take, no handler is inside a
\* broadcast.
C23_BlockedRecipient ==
  AtRest => \A c \in Conns : pc[c] # "bc_send"

\* C24 (as claimed): presence updates are ordered per connection: no
\* broadcast of the user list calls send_text for a connection that has
\* already received the user list of a broadcast that began later, and is
\* received there.
C24_PresenceOrdered ==
  [][\A c \in Conns :
       (/\ pc[c] = "bc_send" /\ Stepped(c)
        /\ loc[c].msg.type = "user_list_update"
        /\ transport[loc[c].cur_v] = "open")
       => loc[c].cur_v \notin loc[c].late]_vars

\* --- invariants of the registry
\* C25: the username index agrees with the entries. username_to_session maps
\* u to t only if t is a key of active_connections and user_sessions[t] has
\* username u; every entry of user_sessions is the one its username maps to;
\* is_user_online(u) holds exactly when u is in get_active_users().
C25_IndexAgrees ==
  /\ \A u \in Users :
       LET t == username_to_session[u] IN
       t # NoTok => /\ Has(active_connections, t)
                    /\ Has(user_sessions, t)
                    /\ Get(user_sessions, t) = u
  /\ \A i \in Live(user_sessions) :
       username_to_session[user_sessions[i].v] = user_sessions[i].k
  /\ \A u \in Users :
       is_user_online(St, u)
         <=> \E i \in 1..Len(get_active_users(St)) : get_active_users(St)[i] = u

\* a user is registered with its second session after its first connection
\* was evicted and has torn down, and the index maps the user to that session
C25_Witness ==
  \E c, d \in Conns :
    /\ d < c /\ pc[d] = "done" /\ pc[c] = "recv"
    /\ loc[c].token.n = 2
    /\ Has(active_connections, loc[c].token)
    /\ Get(active_connections, loc[c].token) = c
    /\ username_to_session[loc[c].token.user] = loc[c].token

Keys(d) == {d[i].k : i \in Live(d)}

\* C26: active_connections and user_sessions have the same set of keys in
\* every reachable state, the states where connect is suspended closing an
\* evicted transport or a broadcast is suspended between sends included.
C26_SameKeys ==
  Keys(active_connections) = Keys(user_sessions)

\* a connect is suspended closing an evicted transport while a broadcast is
\* suspended between two sends
C26_Witness ==
  \E c, x \in Conns :
    /\ pc[c] = "close_old" /\ Has(active_connections, loc[c].old)
    /\ pc[x] = "bc_send" /\ loc[x].sent # {}
    /\ Keys(active_connections) # {}

====
